---------------------------- MODULE Spec2Model ----------------------------
(***************************************************************************)
(* Frenet optimal trajectory generator                                     *)
(* (PathPlanning/FrenetOptimalTrajectory/frenet_optimal_trajectory.py).    *)
(*                                                                         *)
(* Numbers.  A Python float is modelled by an exact rational <<n, d>>      *)
(* (d > 0, lowest terms).  Time is counted in sampling steps: the literal  *)
(* 0.1 of line 142 is the unit, so the sample times of a duration of k     *)
(* steps are 0, 1, ..., k-1 and speeds are metres per step.  A duration is *)
(* a record [k, sub]: k steps, or (sub = TRUE) k times 1e-120 s, a double  *)
(* whose cube underflows to 0.0.  Rounding is not modelled; math.sqrt and  *)
(* math.atan2, which are not rational, are evaluated in fixed point.       *)
(***************************************************************************)
EXTENDS Integers, Sequences, FiniteSets, TLC

(***************************************************************************)
(* Rational arithmetic                                                     *)
(***************************************************************************)
Abs(n) == IF n < 0 THEN -n ELSE n

RECURSIVE Gcd(_, _)
Gcd(a, b) == IF b = 0 THEN a ELSE Gcd(b, a % b)

Norm(n, d) ==
    LET g == Gcd(Abs(n), Abs(d))
        s == IF d < 0 THEN -1 ELSE 1
    IN  <<(s * n) \div g, (s * d) \div g>>

R(n) == <<n, 1>>
Zero == R(0)

RNeg(a) == <<-a[1], a[2]>>
RAdd(a, b) ==
    LET g == Gcd(a[2], b[2])
    IN  Norm(a[1] * (b[2] \div g) + b[1] * (a[2] \div g), (a[2] \div g) * b[2])
RSub(a, b) == RAdd(a, RNeg(b))
RMul(a, b) ==
    LET g1 == Gcd(Abs(a[1]), b[2])
        g2 == Gcd(Abs(b[1]), a[2])
    IN  IF a[1] = 0 \/ b[1] = 0 THEN Zero
        ELSE Norm((a[1] \div g1) * (b[1] \div g2), (a[2] \div g2) * (b[2] \div g1))
RDiv(a, b) == RMul(a, Norm(b[2], b[1]))
RAbs(a) == <<Abs(a[1]), a[2]>>
RLt(a, b) == a[1] * b[2] < b[1] * a[2]
RLe(a, b) == a[1] * b[2] <= b[1] * a[2]
RGt(a, b) == RLt(b, a)

RECURSIVE RPow(_, _)
RPow(a, n) == IF n = 0 THEN R(1) ELSE RMul(a, RPow(a, n - 1))

RECURSIVE IPow(_, _)
IPow(a, n) == IF n = 0 THEN 1 ELSE a * IPow(a, n - 1)

(***************************************************************************)
(* Durations and the powers T**n of lines 30-32 and 75-76                  *)
(***************************************************************************)
\* The smallest n for which (k * 1e-120)**n is 0.0 in IEEE-754 doubles.
UnderflowPower == 3

Dur(k, sub) == [k |-> k, sub |-> sub]

Underflows(T, n) == T.sub /\ T.k # 0 /\ n >= UnderflowPower

\* T**n.  For a sub-scale T and n < UnderflowPower the value is k^n in the
\* sub-scale unit, which is all the model needs: it is not zero.
TPow(T, n) == IF Underflows(T, n) THEN Zero ELSE R(IPow(T.k, n))

(***************************************************************************)
(* np.linalg.solve (lines 36 and 79)                                       *)
(***************************************************************************)
Det2(A) == RSub(RMul(A[1][1], A[2][2]), RMul(A[1][2], A[2][1]))

Det3(A) ==
    RAdd(RSub(RMul(A[1][1], Det2(<<<<A[2][2], A[2][3]>>, <<A[3][2], A[3][3]>>>>)),
              RMul(A[1][2], Det2(<<<<A[2][1], A[2][3]>>, <<A[3][1], A[3][3]>>>>))),
         RMul(A[1][3], Det2(<<<<A[2][1], A[2][2]>>, <<A[3][1], A[3][2]>>>>)))

Det(A) == IF Len(A) = 2 THEN Det2(A) ELSE Det3(A)

\* A with column j replaced by b
ReplaceCol(A, j, b) ==
    [i \in 1..Len(A) |-> [c \in 1..Len(A) |-> IF c = j THEN b[i] ELSE A[i][c]]]

\* LAPACK's LU factorisation raises LinAlgError("Singular matrix") when it
\* meets a zero pivot, and otherwise returns the solution (Cramer's rule
\* here).  flushed: the cube of the duration the matrix was built from is 0.0;
\* then the first row of the 3x3 matrix is zero, and the elimination step of
\* the 2x2 matrix, of order T**3, leaves a zero pivot.
linalg_solve(A, b, flushed) ==
    IF flushed \/ Det(A) = Zero
    THEN [ok |-> FALSE, x |-> <<>>]
    ELSE [ok |-> TRUE,
          x  |-> [j \in 1..Len(A) |-> RDiv(Det(ReplaceCol(A, j, b)), Det(A))]]

(***************************************************************************)
(* class quinic_polynomial (lines 14-57)                                   *)
(***************************************************************************)
quinic_polynomial(xs, vxs, axs, xe, vxe, axe, T) ==
    LET a0 == xs
        a1 == vxs
        a2 == RDiv(axs, R(2))
        A  == << <<TPow(T, 3), TPow(T, 4), TPow(T, 5)>>,
                 <<RMul(R(3), TPow(T, 2)), RMul(R(4), TPow(T, 3)), RMul(R(5), TPow(T, 4))>>,
                 <<RMul(R(6), TPow(T, 1)), RMul(R(12), TPow(T, 2)), RMul(R(20), TPow(T, 3))>> >>
        b  == << RSub(RSub(RSub(xe, a0), RMul(a1, TPow(T, 1))), RMul(a2, TPow(T, 2))),
                 RSub(RSub(vxe, a1), RMul(RMul(R(2), a2), TPow(T, 1))),
                 RSub(axe, RMul(R(2), a2)) >>
        x  == linalg_solve(A, b, Underflows(T, 3))
    IN  IF x.ok
        THEN [ok |-> TRUE, a0 |-> a0, a1 |-> a1, a2 |-> a2,
              a3 |-> x.x[1], a4 |-> x.x[2], a5 |-> x.x[3]]
        ELSE [ok |-> FALSE, a0 |-> a0, a1 |-> a1, a2 |-> a2,
              a3 |-> Zero, a4 |-> Zero, a5 |-> Zero]

quinic_calc_point(p, t) ==
    RAdd(RAdd(RAdd(RAdd(RAdd(p.a0, RMul(p.a1, t)), RMul(p.a2, RPow(t, 2))),
                   RMul(p.a3, RPow(t, 3))), RMul(p.a4, RPow(t, 4))),
         RMul(p.a5, RPow(t, 5)))

\* the last term's factor 5 written as 4
quinic_calc_first_derivative_slip(p, t) ==
    RAdd(RAdd(RAdd(RAdd(p.a1, RMul(RMul(R(2), p.a2), t)),
                   RMul(RMul(R(3), p.a3), RPow(t, 2))),
              RMul(RMul(R(4), p.a4), RPow(t, 3))),
         RMul(RMul(R(4), p.a5), RPow(t, 4)))

quinic_calc_first_derivative(p, t) ==
    RAdd(RAdd(RAdd(RAdd(p.a1, RMul(RMul(R(2), p.a2), t)),
                   RMul(RMul(R(3), p.a3), RPow(t, 2))),
              RMul(RMul(R(4), p.a4), RPow(t, 3))),
         RMul(RMul(R(5), p.a5), RPow(t, 4)))

quinic_calc_second_derivative(p, t) ==
    RAdd(RAdd(RAdd(RMul(R(2), p.a2), RMul(RMul(R(6), p.a3), t)),
              RMul(RMul(R(12), p.a4), RPow(t, 2))),
         RMul(RMul(R(20), p.a5), RPow(t, 3)))

(***************************************************************************)
(* class quartic_polynomial (lines 60-99)                                  *)
(***************************************************************************)
quartic_polynomial(xs, vxs, axs, vxe, axe, T) ==
    LET a0 == xs
        a1 == vxs
        a2 == RDiv(axs, R(2))
        A  == << <<RMul(R(3), TPow(T, 2)), RMul(R(4), TPow(T, 3))>>,
                 <<RMul(R(6), TPow(T, 1)), RMul(R(12), TPow(T, 2))>> >>
        b  == << RSub(RSub(vxe, a1), RMul(RMul(R(2), a2), TPow(T, 1))),
                 RSub(axe, RMul(R(2), a2)) >>
        x  == linalg_solve(A, b, Underflows(T, 3))
    IN  IF x.ok
        THEN [ok |-> TRUE, a0 |-> a0, a1 |-> a1, a2 |-> a2,
              a3 |-> x.x[1], a4 |-> x.x[2]]
        ELSE [ok |-> FALSE, a0 |-> a0, a1 |-> a1, a2 |-> a2,
              a3 |-> Zero, a4 |-> Zero]

quartic_calc_point(p, t) ==
    RAdd(RAdd(RAdd(RAdd(p.a0, RMul(p.a1, t)), RMul(p.a2, RPow(t, 2))),
              RMul(p.a3, RPow(t, 3))), RMul(p.a4, RPow(t, 4)))

quartic_calc_first_derivative(p, t) ==
    RAdd(RAdd(RAdd(p.a1, RMul(RMul(R(2), p.a2), t)),
              RMul(RMul(R(3), p.a3), RPow(t, 2))),
         RMul(RMul(R(4), p.a4), RPow(t, 3)))

quartic_calc_second_derivative(p, t) ==
    RAdd(RAdd(RMul(R(2), p.a2), RMul(RMul(R(6), p.a3), t)),
         RMul(RMul(R(12), p.a4), RPow(t, 2)))

(***************************************************************************)
(* math.sqrt and math.atan2 (lines 172-173), in fixed point                *)
(***************************************************************************)
\* Lengths are held to 1/FixScale.
FixScale == 1024

CeilDiv(a, b) == (a + b - 1) \div b

\* a rounded away from zero to a multiple of 1/FixScale: zero only for zero
Fix(a) == IF a[1] < 0 THEN -CeilDiv((-a[1]) * FixScale, a[2])
          ELSE CeilDiv(a[1] * FixScale, a[2])

RECURSIVE IsqrtIter(_, _, _)
IsqrtIter(n, lo, hi) ==
    IF hi - lo <= 1 THEN lo
    ELSE LET mid == (lo + hi) \div 2
         IN  IF mid * mid <= n THEN IsqrtIter(n, mid, hi) ELSE IsqrtIter(n, lo, mid)

\* the integer square root of n < 2^31
Isqrt(n) == IsqrtIter(n, 0, IF n + 1 < 46341 THEN n + 1 ELSE 46341)

\* math.sqrt(dx**2 + dy**2): 0 exactly when dx = dy = 0
sqrt_sumsq(dx, dy) ==
    LET X == Fix(dx)
        Y == Fix(dy)
    IN  Norm(Isqrt(X * X + Y * Y), FixScale)

\* atan(q / 64) in milliradians for q in 0..64: r * (pi/4 + 0.273 * (1 - r))
AtanMilli(q) == (q * (785 * 64 + 273 * (64 - q))) \div 4096

\* math.atan2(dy, dx), to a few milliradians; atan2(0, 0) = 0
atan2(dy, dx) ==
    LET X   == Fix(dx)
        Y   == Fix(dy)
        a   == Abs(X)
        b   == Abs(Y)
        phi == IF a = 0 /\ b = 0 THEN 0
               ELSE IF b <= a THEN AtanMilli((b * 64) \div a)
               ELSE 1571 - AtanMilli((a * 64) \div b)
        ang == IF X >= 0 THEN (IF Y >= 0 THEN phi ELSE -phi)
               ELSE (IF Y >= 0 THEN 3142 - phi ELSE phi - 3142)
    IN  Norm(ang, 1000)

(***************************************************************************)
(* np.arange (lines 136, 137, 142, 148), for a positive step               *)
(***************************************************************************)
\* a range that includes its stop
arange_closed(start, stop, step) ==
    [i \in 1..(IF stop >= start THEN ((stop - start) \div step) + 1 ELSE 0)
        |-> start + (i - 1) * step]

arange(start, stop, step) ==
    [i \in 1..(IF stop > start THEN CeilDiv(stop - start, step) ELSE 0)
        |-> start + (i - 1) * step]

\* np.arange(0.0, Ti, 0.1): one step is 0.1 s; a sub-scale Ti > 0 is less
\* than one step
SampleTimes(Ti) ==
    IF Ti.sub THEN (IF Ti.k > 0 THEN <<0>> ELSE <<>>) ELSE arange(0, Ti.k, 1)

(***************************************************************************)
(* Lists are objects: heap[id] is the content of list id.  A Frenet_path   *)
(* (lines 102-117) is a record of the ids its attributes are bound to.     *)
(***************************************************************************)
Fields == <<"t", "d", "d_d", "d_dd", "s", "s_d", "s_dd", "x", "y", "yaw", "ds", "c">>

FieldSet == {Fields[i] : i \in 1..Len(Fields)}

FieldIndex(f) == CHOOSE i \in 1..Len(Fields) : Fields[i] = f

\* Frenet_path(): twelve new empty lists
Frenet_path(h) ==
    [h |-> h \o [i \in 1..Len(Fields) |-> <<>>],
     p |-> [f \in FieldSet |-> Len(h) + FieldIndex(f)]]

\* copy.copy(fp): a new path bound to the lists of fp
copy_shallow(h, fp) == [h |-> h, p |-> fp]

\* copy.deepcopy(fp): twelve new lists with the contents of fp's (the lists of
\* a path under construction are twelve distinct objects)
deepcopy(h, fp) ==
    [h |-> h \o [i \in 1..Len(Fields) |-> h[fp[Fields[i]]]],
     p |-> [f \in FieldSet |-> Len(h) + FieldIndex(f)]]

\* list.append
append(h, id, v) == [h EXCEPT ![id] = Append(@, v)]

\* the values of a path's lists
Deref(h, fp) == [f \in FieldSet |-> h[fp[f]]]

(***************************************************************************)
(* The search grid (lines 136, 137, 148)                                   *)
(***************************************************************************)
Offsets(g) == arange(-g.maxd, g.maxd, g.dd)

\* a duration grid that tries T itself
Durations_closed(g) == arange(g.dt, g.T + 1, g.dt)

Durations(g) == arange(g.dt, g.T, g.dt)

Speeds(g) == arange(g.target_speed - g.dv * g.nv, g.target_speed + g.dv * g.nv, g.dv)

NumLateral(g) == Len(Offsets(g)) * Len(Durations(g))

\* the gi-th (di, Ti) of the two outer loops, offset outermost
LateralPoint(g, gi) ==
    LET nd == Len(Durations(g))
    IN  [di |-> Offsets(g)[((gi - 1) \div nd) + 1],
         Ti |-> Dur(Durations(g)[((gi - 1) % nd) + 1], g.sub)]

(***************************************************************************)
(* calc_frenet_paths (lines 132-160)                                       *)
(***************************************************************************)
\* lines 153-156: for t in fp.t: append to tfp.s, tfp.s_d, tfp.s_dd
RECURSIVE fill_longitudinal(_, _, _, _, _)
fill_longitudinal(h, tfp, lon_qp, ts, i) ==
    IF i > Len(ts) THEN h
    ELSE fill_longitudinal(
             append(append(append(h, tfp.s, quartic_calc_point(lon_qp, ts[i])),
                           tfp.s_d, quartic_calc_first_derivative(lon_qp, ts[i])),
                    tfp.s_dd, quartic_calc_second_derivative(lon_qp, ts[i])),
             tfp, lon_qp, ts, i + 1)

\* lines 148-158: one clone of fp per target speed.  st = [ok, h, paths]
RECURSIVE speed_loop(_, _, _, _, _, _)
speed_loop(st, fp, c_speed, Ti, tvs, j) ==
    IF j > Len(tvs) \/ ~st.ok THEN st
    ELSE LET cp     == deepcopy(st.h, fp)
             tfp    == cp.p
             lon_qp == quartic_polynomial(Zero, c_speed, Zero, R(tvs[j]), Zero, Ti)
         IN  IF ~lon_qp.ok
             THEN [st EXCEPT !.ok = FALSE, !.h = cp.h]
             ELSE speed_loop(
                      [ok    |-> TRUE,
                       h     |-> fill_longitudinal(cp.h, tfp, lon_qp, cp.h[fp.t], 1),
                       paths |-> Append(st.paths, tfp)],
                      fp, c_speed, Ti, tvs, j + 1)

\* lines 142-146: for t in np.arange(0.0, Ti, 0.1): append to fp.t, fp.d, ...
RECURSIVE fill_lateral(_, _, _, _, _)
fill_lateral(h, fp, lat_qp, ts, i) ==
    IF i > Len(ts) THEN h
    ELSE fill_lateral(
             append(append(append(append(h, fp.t, R(ts[i])),
                                  fp.d, quinic_calc_point(lat_qp, R(ts[i]))),
                           fp.d_d, quinic_calc_first_derivative(lat_qp, R(ts[i]))),
                    fp.d_dd, quinic_calc_second_derivative(lat_qp, R(ts[i]))),
             fp, lat_qp, ts, i + 1)

\* lines 138-158: the body of the two outer loops for one (di, Ti).
\* ok = FALSE: np.linalg.solve raised LinAlgError
lateral_point(h, paths, g, di, Ti) ==
    LET new    == Frenet_path(h)
        fp     == new.p
        lat_qp == quinic_polynomial(R(g.c_d), Zero, Zero, R(di), Zero, Zero, Ti)
    IN  IF ~lat_qp.ok
        THEN [ok |-> FALSE, h |-> new.h, paths |-> paths]
        ELSE speed_loop([ok    |-> TRUE,
                         h     |-> fill_lateral(new.h, fp, lat_qp, SampleTimes(Ti), 1),
                         paths |-> paths],
                        fp, R(g.c_speed), Ti, Speeds(g), 1)

(***************************************************************************)
(* calc_global_paths (lines 163-182), for one fp of fplist                 *)
(***************************************************************************)
\* lines 169-173: for i in range(len(fp.x) - 1).  n = len(fp.x) - 1, read once
RECURSIVE heading_loop(_, _, _, _)
heading_loop(h, fp, n, i) ==
    IF i > n THEN [err |-> "none", h |-> h]
    ELSE IF i + 1 > Len(h[fp.y]) THEN [err |-> "IndexError", h |-> h]
    ELSE LET dx == RSub(h[fp.x][i + 1], h[fp.x][i])
             dy == RSub(h[fp.y][i + 1], h[fp.y][i])
         IN  heading_loop(append(append(h, fp.yaw, atan2(dy, dx)),
                                 fp.ds, sqrt_sumsq(dx, dy)),
                          fp, n, i + 1)

\* lines 179-180: for i in range(len(fp.yaw) - 1).  A float division by 0.0
\* raises ZeroDivisionError (math.atan2 and math.sqrt return Python floats)
RECURSIVE curvature_loop(_, _, _, _)
curvature_loop(h, fp, n, i) ==
    IF i > n THEN [err |-> "none", h |-> h]
    ELSE IF i + 1 > Len(h[fp.yaw]) \/ i > Len(h[fp.ds])
         THEN [err |-> "IndexError", h |-> h]
    ELSE IF h[fp.ds][i] = Zero THEN [err |-> "ZeroDivisionError", h |-> h]
    ELSE curvature_loop(
             append(h, fp.c, RDiv(RSub(h[fp.yaw][i + 1], h[fp.yaw][i]), h[fp.ds][i])),
             fp, n, i + 1)

\* lines 166-180: returns [err, h, p]; p is fp with x and y rebound
convert_path(h, fp0) ==
    LET fp == [fp0 EXCEPT !.x = fp0.s, !.y = fp0.d]
        a  == heading_loop(h, fp, Len(h[fp.x]) - 1, 1)
    IN  IF a.err # "none" THEN [err |-> a.err, h |-> a.h, p |-> fp]
        ELSE IF Len(a.h[fp.yaw]) = 0 \/ Len(a.h[fp.ds]) = 0
             THEN [err |-> "IndexError", h |-> a.h, p |-> fp]
        ELSE LET h1 == append(a.h, fp.yaw, a.h[fp.yaw][Len(a.h[fp.yaw])])
                 h2 == append(h1, fp.ds, h1[fp.ds][Len(h1[fp.ds])])
                 b  == curvature_loop(h2, fp, Len(h2[fp.yaw]) - 1, 1)
             IN  [err |-> b.err, h |-> b.h, p |-> fp]

(***************************************************************************)
(* check_paths (lines 185-198)                                             *)
(***************************************************************************)
\* any([v > max_speed for v in s_d])
any_speed(s_d, lim) == \E k \in 1..Len(s_d) : RGt(s_d[k], lim.max_speed)

\* the comparison turned round
any_accel_below(s_dd, lim) == \E k \in 1..Len(s_dd) : RLt(RAbs(s_dd[k]), lim.max_accel)

\* any([abs(a) > max_accel for a in s_dd])
any_accel(s_dd, lim) == \E k \in 1..Len(s_dd) : RGt(RAbs(s_dd[k]), lim.max_accel)

\* any([abs(c) > max_curvature for c in c])
any_curvature(c, lim) == \E k \in 1..Len(c) : RGt(RAbs(c[k]), lim.max_curvature)

\* lines 187-196: the indices kept; vals[i] holds the lists of fplist[i]
RECURSIVE okind(_, _, _)
okind(vals, lim, i) ==
    IF i > Len(vals) THEN <<>>
    ELSE IF any_speed(vals[i].s_d, lim) THEN okind(vals, lim, i + 1)
    ELSE IF any_accel(vals[i].s_dd, lim) THEN okind(vals, lim, i + 1)
    ELSE IF any_curvature(vals[i].c, lim) THEN okind(vals, lim, i + 1)
    ELSE <<i>> \o okind(vals, lim, i + 1)

\* line 198: [fplist[i] for i in okind]
check_paths(fplist, vals, lim) ==
    LET ok == okind(vals, lim, 1)
    IN  [k \in 1..Len(ok) |-> fplist[ok[k]]]

(***************************************************************************)
(* State                                                                   *)
(***************************************************************************)
VARIABLES
    cfg,           \* the module globals (lines 120-129) and the arguments c_speed, c_d
    pc,            \* where frenet_optimal_planning is: gen, conv, check, plot, done, raised
    err,           \* the exception that left frenet_optimal_planning, or "none"
    heap,          \* the list objects
    frenet_paths,  \* calc_frenet_paths' list, then calc_global_paths' fplist
    gi,            \* the next (di, Ti) of calc_frenet_paths' outer loops
    ci,            \* the next fp of calc_global_paths' loop
    fplist,        \* the list check_paths returned
    plotted,       \* the (x, y) handed to plt.plot
    ret,           \* what frenet_optimal_planning returned: <<>> is None, <<v>> is v
    ck_in,         \* check_paths alone: the lists of the paths of its argument
    ck_res,        \* check_paths alone: the last call, [called, lim, ok]
    bc,            \* the polynomial classes alone: the constructor's arguments
    qp5,           \* the quinic_polynomial constructed from bc
    qp4            \* the quartic_polynomial constructed from bc

plan_vars == <<cfg, pc, err, heap, frenet_paths, gi, ci, fplist, plotted, ret>>
ck_vars == <<ck_in, ck_res>>
poly_vars == <<bc, qp5, qp4>>
vars == <<plan_vars, ck_vars, poly_vars>>

(***************************************************************************)
(* Bounds of the model                                                     *)
(***************************************************************************)
MaxT == 5          \* T is at most MaxT steps
MaxDt == 2         \* dt is 1..MaxDt steps
MaxD == 1          \* maxd
MaxInSpeed == 1    \* c_speed is 0..MaxInSpeed
MaxInOffset == 1   \* c_d is 0..MaxInOffset

Configs ==
    [c_speed : 0..MaxInSpeed, c_d : 0..MaxInOffset,
     max_speed : {R(1)}, max_accel : {<<1, 2>>}, max_curvature : {R(1)},
     maxd : {MaxD}, dd : {1},
     dt : 1..MaxDt, T : 1..MaxT, sub : BOOLEAN,
     target_speed : {1}, dv : {1}, nv : {1}]

NoCall == [called |-> FALSE, lim |-> [max_speed |-> Zero, max_accel |-> Zero,
                                      max_curvature |-> Zero], ok |-> <<>>]

NoPoly == [built |-> FALSE, p |-> [ok |-> FALSE]]

NoBC == [xs |-> 0, vxs |-> 0, axs |-> 0, xe |-> 0, vxe |-> 0, axe |-> 0,
         T |-> Dur(1, FALSE)]

IdleCheck == ck_in = <<>> /\ ck_res = NoCall

IdlePoly == bc = NoBC /\ qp5 = NoPoly /\ qp4 = NoPoly

(***************************************************************************)
(* frenet_optimal_planning (lines 201-208), one step at a time             *)
(***************************************************************************)
Init ==
    /\ cfg \in {g \in Configs : g.dt <= g.T}
    /\ pc = "gen"
    /\ err = "none"
    /\ heap = <<>>
    /\ frenet_paths = <<>>
    /\ gi = 1
    /\ ci = 1
    /\ fplist = <<>>
    /\ plotted = <<>>
    /\ ret = <<>>
    /\ IdleCheck
    /\ IdlePoly

\* one pass of the body of calc_frenet_paths' outer loops (lines 138-158)
GenStep ==
    /\ pc = "gen"
    /\ gi <= NumLateral(cfg)
    /\ LET pt == LateralPoint(cfg, gi)
           r  == lateral_point(heap, frenet_paths, cfg, pt.di, pt.Ti)
       IN  /\ heap' = r.h
           /\ frenet_paths' = r.paths
           /\ IF r.ok
              THEN gi' = gi + 1 /\ UNCHANGED <<pc, err>>
              ELSE pc' = "raised" /\ err' = "LinAlgError" /\ UNCHANGED gi
    /\ UNCHANGED <<cfg, ci, fplist, plotted, ret, ck_vars, poly_vars>>

\* line 160: return frenet_paths; line 204 calls calc_global_paths
GenReturn ==
    /\ pc = "gen"
    /\ gi > NumLateral(cfg)
    /\ pc' = "conv"
    /\ UNCHANGED <<cfg, err, heap, frenet_paths, gi, ci, fplist, plotted, ret,
                   ck_vars, poly_vars>>

\* one pass of the body of calc_global_paths' loop (lines 166-180)
ConvStep ==
    /\ pc = "conv"
    /\ ci <= Len(frenet_paths)
    /\ LET r == convert_path(heap, frenet_paths[ci])
       IN  /\ heap' = r.h
           /\ frenet_paths' = [frenet_paths EXCEPT ![ci] = r.p]
           /\ IF r.err = "none"
              THEN ci' = ci + 1 /\ UNCHANGED <<pc, err>>
              ELSE pc' = "raised" /\ err' = r.err /\ UNCHANGED ci
    /\ UNCHANGED <<cfg, gi, fplist, plotted, ret, ck_vars, poly_vars>>

\* line 182: return fplist; line 205 calls check_paths
ConvReturn ==
    /\ pc = "conv"
    /\ ci > Len(frenet_paths)
    /\ pc' = "check"
    /\ UNCHANGED <<cfg, err, heap, frenet_paths, gi, ci, fplist, plotted, ret,
                   ck_vars, poly_vars>>

\* line 205: fplist = check_paths(fplist)
CheckStep ==
    /\ pc = "check"
    /\ fplist' = check_paths(frenet_paths,
                             [i \in 1..Len(frenet_paths) |-> Deref(heap, frenet_paths[i])],
                             cfg)
    /\ pc' = "plot"
    /\ UNCHANGED <<cfg, err, heap, frenet_paths, gi, ci, plotted, ret,
                   ck_vars, poly_vars>>

\* lines 207-208: plot every fp; the function ends without a return statement
PlotAndReturn ==
    /\ pc = "plot"
    /\ plotted' = [i \in 1..Len(fplist) |-> <<heap[fplist[i].x], heap[fplist[i].y]>>]
    /\ ret' = <<>>
    /\ pc' = "done"
    /\ UNCHANGED <<cfg, err, heap, frenet_paths, gi, ci, fplist, ck_vars, poly_vars>>

Next == GenStep \/ GenReturn \/ ConvStep \/ ConvReturn \/ CheckStep \/ PlotAndReturn

Spec == Init /\ [][Next]_vars

(***************************************************************************)
(* check_paths alone: called on a list of paths, under limits that the     *)
(* caller has set.  A path is given by the three lists check_paths reads:  *)
(* two samples of s_d and s_dd and the one curvature between them.         *)
(***************************************************************************)
MaxPaths == 1      \* len(fplist) is 0..MaxPaths
MaxMag == 2        \* samples are -MaxMag, 0, MaxMag; limits MaxMag - 1, MaxMag + 1

Samples == {R(-MaxMag), Zero, R(MaxMag)}

LimitValues == {R(MaxMag - 1), R(MaxMag + 1)}

Limits == [max_speed : LimitValues, max_accel : LimitValues, max_curvature : LimitValues]

PathValues == [s_d : Samples \X Samples, s_dd : Samples \X Samples,
               c : {<<v>> : v \in Samples}]

InitCheck ==
    /\ ck_in \in UNION {[1..n -> PathValues] : n \in 0..MaxPaths}
    /\ ck_res = NoCall
    /\ cfg = CHOOSE g \in Configs : TRUE
    /\ pc = "idle"
    /\ err = "none"
    /\ heap = <<>>
    /\ frenet_paths = <<>>
    /\ gi = 1
    /\ ci = 1
    /\ fplist = <<>>
    /\ plotted = <<>>
    /\ ret = <<>>
    /\ IdlePoly

\* the globals of lines 120-122 are set to lim and check_paths(fplist) is called
CheckCall ==
    /\ \E lim \in Limits :
          ck_res' = [called |-> TRUE, lim |-> lim, ok |-> okind(ck_in, lim, 1)]
    /\ UNCHANGED <<ck_in, plan_vars, poly_vars>>

NextCheck == CheckCall

SpecCheck == InitCheck /\ [][NextCheck]_vars

(***************************************************************************)
(* The polynomial classes alone: constructed from boundary conditions bc   *)
(***************************************************************************)
MaxPos == 1        \* xs, xe are -MaxPos..MaxPos
MaxRate == 1       \* vxs, axs, vxe, axe are 0..MaxRate
MaxPolyT == 3      \* T is 0..MaxPolyT steps, or as many times 1e-120 s

InitPoly ==
    /\ bc \in [xs : -MaxPos..MaxPos, xe : -MaxPos..MaxPos,
               vxs : 0..MaxRate, axs : 0..MaxRate, vxe : 0..MaxRate, axe : 0..MaxRate,
               T : {Dur(k, sub) : k \in 0..MaxPolyT, sub \in BOOLEAN}]
    /\ qp5 = NoPoly
    /\ qp4 = NoPoly
    /\ cfg = CHOOSE g \in Configs : TRUE
    /\ pc = "idle"
    /\ err = "none"
    /\ heap = <<>>
    /\ frenet_paths = <<>>
    /\ gi = 1
    /\ ci = 1
    /\ fplist = <<>>
    /\ plotted = <<>>
    /\ ret = <<>>
    /\ IdleCheck

\* quinic_polynomial(xs, vxs, axs, xe, vxe, axe, T); p.ok = FALSE: it raised
BuildQuintic ==
    /\ ~qp5.built
    /\ qp5' = [built |-> TRUE,
               p |-> quinic_polynomial(R(bc.xs), R(bc.vxs), R(bc.axs),
                                       R(bc.xe), R(bc.vxe), R(bc.axe), bc.T)]
    /\ UNCHANGED <<bc, qp4, plan_vars, ck_vars>>

\* quartic_polynomial(xs, vxs, axs, vxe, axe, T)
BuildQuartic ==
    /\ ~qp4.built
    /\ qp4' = [built |-> TRUE,
               p |-> quartic_polynomial(R(bc.xs), R(bc.vxs), R(bc.axs),
                                        R(bc.vxe), R(bc.axe), bc.T)]
    /\ UNCHANGED <<bc, qp5, plan_vars, ck_vars>>

NextPoly == BuildQuintic \/ BuildQuartic

SpecPoly == InitPoly /\ [][NextPoly]_vars

(***************************************************************************)
(* Properties                                                              *)
(***************************************************************************)
SeqSet(q) == {q[k] : k \in 1..Len(q)}

AllAbsWithin(q, m) == \A k \in 1..Len(q) : RLe(RAbs(q[k]), m)

WithinLimits(v, lim) ==
    /\ AllAbsWithin(v.s_d, lim.max_speed)
    /\ AllAbsWithin(v.s_dd, lim.max_accel)
    /\ AllAbsWithin(v.c, lim.max_curvature)

\* C1: check_paths returns exactly the paths of its argument whose every
\* sample has |s_d| <= max_speed, |s_dd| <= max_accel and |c| <= max_curvature.
C1_ExactlyWithinLimits ==
    ck_res.called =>
        SeqSet(ck_res.ok) = {i \in 1..Len(ck_in) : WithinLimits(ck_in[i], ck_res.lim)}

\* C2: frenet_optimal_planning returns the list check_paths returned (an empty
\* list when no candidate is feasible), not an absent value.
C2_ReturnsFiltered == pc = "done" => ret = <<fplist>>

LenOf(i, f) == Len(heap[frenet_paths[i][f]])

GeneratedLengths(i) ==
    \A f \in {"d", "d_d", "d_dd", "s", "s_d", "s_dd"} : LenOf(i, f) = LenOf(i, "t")

ConvertedLengths(i) ==
    /\ \A f \in {"x", "y", "yaw", "ds"} : LenOf(i, f) = LenOf(i, "t")
    /\ LenOf(i, "c") = LenOf(i, "t") - 1

\* calc_global_paths is over: it returned, or it stopped at a candidate's
\* missing heading (the division by zero of C6 is left to C6)
GlobalPathsOver ==
    \/ pc \in {"check", "plot", "done"}
    \/ pc = "raised" /\ err = "IndexError"

\* C3: every candidate's t, d, d_d, d_dd, s, s_d, s_dd have one length, for
\* every dt > 0, single-sample durations included; and once calc_global_paths
\* is over, x, y, yaw, ds have length len(t) and c has length len(t) - 1.
C3_Lengths ==
    \A i \in 1..Len(frenet_paths) :
        GeneratedLengths(i) /\ (GlobalPathsOver => ConvertedLengths(i))

\* the sequence of a set of integers in ascending order
RECURSIVE SortedSeq(_)
SortedSeq(S) ==
    IF S = {} THEN <<>>
    ELSE LET m == CHOOSE x \in S : \A y \in S : x <= y
         IN  <<m>> \o SortedSeq(S \ {m})

\* the half-open grids: start, start + step, ... below stop
GridSet(start, stop, step) == {x \in start..(stop - 1) : (x - start) % step = 0}

OffsetSet == GridSet(-cfg.maxd, cfg.maxd, cfg.dd)
DurationSet == GridSet(cfg.dt, cfg.T, cfg.dt)
SpeedSet == GridSet(cfg.target_speed - cfg.dv * cfg.nv,
                    cfg.target_speed + cfg.dv * cfg.nv, cfg.dv)

\* the k-th triple, offset outermost, then duration, then speed
GridTriple(k) ==
    LET nt == Cardinality(DurationSet)
        nv == Cardinality(SpeedSet)
    IN  [di |-> SortedSeq(OffsetSet)[((k - 1) \div (nt * nv)) + 1],
         Ti |-> SortedSeq(DurationSet)[(((k - 1) \div nv) % nt) + 1],
         tv |-> SortedSeq(SpeedSet)[((k - 1) % nv) + 1]]

\* the candidate k holds the samples of the profiles of the triple g
PathOfTriple(k, g) ==
    LET v   == Deref(heap, frenet_paths[k])
        Ti  == Dur(g.Ti, cfg.sub)
        lat == quinic_polynomial(R(cfg.c_d), Zero, Zero, R(g.di), Zero, Zero, Ti)
        lon == quartic_polynomial(Zero, R(cfg.c_speed), Zero, R(g.tv), Zero, Ti)
    IN  /\ v.t = [i \in 1..g.Ti |-> R(i - 1)]
        /\ v.d = [i \in 1..g.Ti |-> quinic_calc_point(lat, R(i - 1))]
        /\ v.s_d = [i \in 1..g.Ti |-> quartic_calc_first_derivative(lon, R(i - 1))]

FrenetPathsReturned ==
    \/ pc \in {"conv", "check", "plot", "done"}
    \/ pc = "raised" /\ err # "LinAlgError"

\* C4: calc_frenet_paths returns one candidate per (offset, duration, speed)
\* triple of the half-open grids, in enumeration order: as many candidates as
\* the product of the three grids' sizes, none merged, skipped or duplicated.
C4_OnePerTriple ==
    FrenetPathsReturned =>
        /\ Len(frenet_paths) =
               Cardinality(OffsetSet) * Cardinality(DurationSet) * Cardinality(SpeedSet)
        /\ \A k \in 1..Len(frenet_paths) : PathOfTriple(k, GridTriple(k))

C4_Witness ==
    /\ pc = "done"
    /\ Cardinality(DurationSet) >= 2
    /\ Len(frenet_paths) >= 8

\* C5: a singular polynomial solve at one grid point does not make the
\* planning call fail: LinAlgError never leaves frenet_optimal_planning.
C5_SingularSolveContained == ~(pc = "raised" /\ err = "LinAlgError")

\* C6: coincident consecutive points (ds[i] = 0) do not abort the planning
\* call: ZeroDivisionError never leaves frenet_optimal_planning.
C6_ZeroStepContained == ~(pc = "raised" /\ err = "ZeroDivisionError")

BoundaryAt(p, t, x, v, a) ==
    /\ quinic_calc_point(p, t) = x
    /\ quinic_calc_first_derivative(p, t) = v
    /\ quinic_calc_second_derivative(p, t) = a

\* C7: for every T > 0 the constructors build the profile (unless T**3
\* underflows), and the profile built reproduces the boundary conditions: the
\* quintic its position, velocity and acceleration at 0 and at T, the quartic
\* those at 0 and its velocity and acceleration at T.
C7_BoundaryConditions ==
    LET T == R(bc.T.k)
    IN  /\ (qp5.built /\ bc.T.k > 0 /\ ~bc.T.sub) => qp5.p.ok
        /\ (qp4.built /\ bc.T.k > 0 /\ ~bc.T.sub) => qp4.p.ok
        /\ (qp5.built /\ qp5.p.ok /\ bc.T.k > 0) =>
               /\ BoundaryAt(qp5.p, Zero, R(bc.xs), R(bc.vxs), R(bc.axs))
               /\ BoundaryAt(qp5.p, T, R(bc.xe), R(bc.vxe), R(bc.axe))
        /\ (qp4.built /\ qp4.p.ok /\ bc.T.k > 0) =>
               /\ quartic_calc_point(qp4.p, Zero) = R(bc.xs)
               /\ quartic_calc_first_derivative(qp4.p, Zero) = R(bc.vxs)
               /\ quartic_calc_second_derivative(qp4.p, Zero) = R(bc.axs)
               /\ quartic_calc_first_derivative(qp4.p, T) = R(bc.vxe)
               /\ quartic_calc_second_derivative(qp4.p, T) = R(bc.axe)

C7_Witness ==
    /\ qp5.built /\ qp5.p.ok /\ qp4.built /\ qp4.p.ok
    /\ bc.T.k > 1
    /\ bc.xe # bc.xs /\ bc.vxe # bc.vxs /\ bc.axe # bc.axs

LimLe(a, b) ==
    /\ RLe(a.max_speed, b.max_speed)
    /\ RLe(a.max_accel, b.max_accel)
    /\ RLe(a.max_curvature, b.max_curvature)

\* C8: for one list of paths, a call of check_paths under limits that are each
\* at least those of another call returns every path the other call returns.
C8_Monotone ==
    [][(ck_res.called /\ ck_res'.called) =>
          /\ LimLe(ck_res.lim, ck_res'.lim) => SeqSet(ck_res.ok) \subseteq SeqSet(ck_res'.ok)
          /\ LimLe(ck_res'.lim, ck_res.lim) => SeqSet(ck_res'.ok) \subseteq SeqSet(ck_res.ok)
      ]_vars

\* a call under the widest limits that returned a path which the narrowest
\* limits reject
C8_Witness ==
    /\ ck_res.called
    /\ \A l \in Limits : LimLe(l, ck_res.lim)
    /\ \E i \in SeqSet(ck_res.ok) :
          \E l \in Limits : ~WithinLimits(ck_in[i], l)

\* C9: with T = dt the duration grid is empty: no candidate is generated, the
\* conversion and the filter run on the empty list, and nothing is raised.
C9_EmptyDurationGrid ==
    cfg.T = cfg.dt =>
        /\ pc # "raised" /\ err = "none"
        /\ frenet_paths = <<>> /\ fplist = <<>> /\ plotted = <<>>

C9_Witness == cfg.T = cfg.dt /\ pc = "done"

\* C10: no list of one candidate is a list of another candidate, after
\* generation and after calc_global_paths: a change to one candidate's t, d,
\* d_d, d_dd, s, s_d, s_dd, x, y, yaw, ds or c changes no other candidate.
C10_NoSharedList ==
    \A i, j \in 1..Len(frenet_paths) :
        i # j => \A f, g \in FieldSet : frenet_paths[i][f] # frenet_paths[j][g]

\* two candidates cloned from one lateral profile, converted
C10_Witness ==
    /\ pc = "done"
    /\ Len(frenet_paths) >= 2
    /\ heap[frenet_paths[1].d] = heap[frenet_paths[2].d]
    /\ Len(heap[frenet_paths[1].d]) >= 2
    /\ frenet_paths[1].x = frenet_paths[1].s

=============================================================================
